---- MODULE Spec2Model ----
(***************************************************************************)
(* Risk-managed trade execution of the Thor trading bot:                   *)
(*   RiskManager (src/risk_management.py) and Trader (src/trader.py).      *)
(*                                                                         *)
(* Python floats are modelled as exact rationals <<n, d>> (d > 0, lowest   *)
(* terms), so that sums, products and quotients are computed as the code   *)
(* computes them, without rounding.                                        *)
(***************************************************************************)
EXTENDS Integers, Sequences, FiniteSets, TLC

(* ------------------------------ rationals ------------------------------ *)

Abs(n) == IF n < 0 THEN -n ELSE n

RECURSIVE GCD(_, _)
GCD(a, b) == IF b = 0 THEN a ELSE GCD(b, a % b)

\* the rational n/d (d # 0) in lowest terms with a positive denominator
Rat(n, d) ==
    LET s == IF d < 0 THEN -1 ELSE 1
        g == GCD(Abs(n), Abs(d))
    IN  <<(s * n) \div g, (s * d) \div g>>

R(n) == <<n, 1>>
Zero == <<0, 1>>

RAdd(a, b) == Rat(a[1] * b[2] + b[1] * a[2], a[2] * b[2])
RSub(a, b) == Rat(a[1] * b[2] - b[1] * a[2], a[2] * b[2])
RMul(a, b) == Rat(a[1] * b[1], a[2] * b[2])
RDiv(a, b) == Rat(a[1] * b[2], a[2] * b[1])
RLe(a, b) == a[1] * b[2] <= b[1] * a[2]
RLt(a, b) == a[1] * b[2] < b[1] * a[2]
RMin(a, b) == IF RLe(a, b) THEN a ELSE b

(* ------------------------- configuration, inputs ------------------------ *)

\* config.TRADING["max_position_size_usd"]
max_position_size == 1000
\* config.TRADING["max_total_exposure_usd"]
max_total_exposure == 2000
\* config.TRADING["stop_loss_pct"] = 0.15 and ["take_profit_pct"] = 0.50
stop_loss_pct == <<3, 20>>
take_profit_pct == <<1, 2>>
\* exponential_backoff(max_retries=3) around _real_trade_buy and _real_trade_sell
max_retries == 3
\* monitor_order sleeps 3 s after a poll and 5 s after a polling error
poll_interval == 3
error_pause == 5
\* the default timeout of monitor_order (300 s in the code), scaled down
default_timeout == 6
\* _record_trade keeps the last 1000 trades
HistoryCap == 1000

\* number of calls made on the RiskManager / Trader in one run
MaxCalls == 3
\* number of trades a Trader has counted when its health is asked for
MaxTrades == 10

Tokens == {"T", "U"}
Quantities == {100, 600}
Prices == {1, 2}
\* the one lot size of the live runs
Lots == {100}
Confidences == {Zero, R(1)}
Sides == {"buy", "sell"}
\* the timeouts monitor_order is called with: none at all, and the default
Timeouts == {0, default_timeout}

Free == "free"
\* the decision loop, a thread that waits for an order of its own, and the thread
\* that shuts the bot down while they run
Main == "main"
Worker == "worker"
Shutdown == "shutdown"
Threads == {Main, Worker, Shutdown}

\* return values: Python's None, a float, a bool; NoReturn while the call has not returned
None == [kind |-> "None"]
NoReturn == [kind |-> "no_return"]
Float(x) == [kind |-> "float", value |-> x]
Bool(b) == [kind |-> "bool", value |-> b]
\* the call ended by raising exception e to its caller
Raised(e) == [kind |-> "raised", exception |-> e]

VARIABLES
    positions,      \* RiskManager.positions: dict token -> Position
    trade_history,  \* RiskManager.trade_history
    lock,           \* RiskManager.lock: Free or the thread that holds it
    pc,             \* where the calling thread is: "idle" or blocked in a call
    call,           \* the last call made (operation and arguments)
    ret,            \* what the last call returned (NoReturn while it has not)
    bought,         \* per token: the add_position calls since the position was opened
    total_trades,       \* Trader.total_trades
    successful_trades,  \* Trader.successful_trades
    failed_trades,      \* Trader.failed_trades
    ncalls,         \* number of calls made so far
    paper_trading,  \* Trader.paper_trading, read from the configuration
    open_orders,    \* Trader.open_orders: the ids of the orders being monitored
    jobs            \* per thread: the live order it is trading and the loop around it

vars == <<positions, trade_history, lock, pc, call, ret, bought,
          total_trades, successful_trades, failed_trades, ncalls,
          paper_trading, open_orders, jobs>>

trader_counters == <<total_trades, successful_trades, failed_trades>>
order_state == <<paper_trading, open_orders, jobs>>

NotBought == [quantity |-> Zero, cost |-> Zero, sold |-> FALSE]

\* a thread that is trading no order. op: the Trader method it runs; at: the broker
\* call it makes next; returns: what the method returns in the end; queue: the
\* sells its loop has still to make; side .. price: the order it trades; attempt:
\* the retry of the backoff wrapper it is in; order_id, elapsed, timeout:
\* the monitor_order it is in. What is left when the method has returned: ret;
\* current_status (the last status the broker returned to monitor_order), ended
\* (how monitor_order ended), cancels (its cancel_order calls); inside: the thread
\* is in a `with self.lock` block that writes the ledger; price_updates,
\* confidence_score: arguments it has still to use; and of
\* emergency_stop: listed (the tokens emergency_close_all returned), attempted
\* (those _execute_sell was called for), cancel_attempts and cancel_failed (the
\* orders cancel_order was called for, and raised for).
NoJob ==
    [op |-> "none", at |-> "idle", returns |-> "none", queue |-> <<>>,
     side |-> "none", token |-> "none", quantity |-> Zero, price |-> Zero,
     attempt |-> 0, order_id |-> "none", elapsed |-> 0, timeout |-> 0,
     current_status |-> "none", ended |-> "none", cancels |-> 0,
     listed |-> {}, attempted |-> {}, cancel_attempts |-> {}, cancel_failed |-> {},
     inside |-> FALSE, price_updates |-> <<>>, confidence_score |-> Zero,
     place_response |-> "none",
     ret |-> NoReturn]

\* the state after RiskManager.__init__ and Trader.__init__, paper_trading being mode
Constructed(mode) ==
    /\ paper_trading = mode
    /\ open_orders = {}
    /\ jobs = [th \in Threads |-> NoJob]
    /\ positions = [t \in {} |-> NotBought]
    /\ trade_history = <<>>
    /\ lock = Free
    /\ pc = "idle"
    /\ call = [op |-> "init"]
    /\ ret = NoReturn
    /\ bought = [t \in Tokens |-> NotBought]
    /\ total_trades = 0
    /\ successful_trades = 0
    /\ failed_trades = 0
    /\ ncalls = 0

\* the bot as configured by default: paper trading
Init == Constructed(TRUE)

(* ------------------------------ RiskManager ----------------------------- *)

\* (mutant) the lock lets every thread in
Acquirable_by_anyone(owner, thread) == TRUE

\* threading.Lock.acquire() by `thread`: succeeds only on an unlocked lock, whoever
\* holds it (the lock is not reentrant); otherwise the caller blocks
Acquirable(owner, thread) == owner = Free

\* Position.current_value
current_value(pos) == RMul(pos.quantity, pos.current_price)

Held(ps) == DOMAIN ps

RECURSIVE SumValues(_, _)
SumValues(ps, S) ==
    IF S = {} THEN Zero
    ELSE LET t == CHOOSE x \in S : TRUE
         IN  RAdd(current_value(ps[t]), SumValues(ps, S \ {t}))

\* the body of get_portfolio_value, once it holds the lock
get_portfolio_value(ps) == SumValues(ps, Held(ps))

\* get_total_exposure
get_total_exposure(ps) == get_portfolio_value(ps)

(* validate_trade *)

Verdict(allowed, reason) == [kind |-> "verdict", allowed |-> allowed, reason |-> reason]

\* a call that returned v with the lock released, and one blocked in the
\* `with self.lock` of get_portfolio_value while `owner` holds the lock
Returned(v) == [pc |-> "idle", lock |-> Free, ret |-> v]
Blocked(owner) == [pc |-> "get_portfolio_value", lock |-> owner, ret |-> NoReturn]

\* trade value plus the current value of the token's position, if any
new_position_value(ps, t, q, p) ==
    IF t \in DOMAIN ps THEN RAdd(RMul(q, p), current_value(ps[t])) ELSE RMul(q, p)

\* the position size check of a buy
position_size_exceeded(ps, t, q, p) ==
    RLt(R(max_position_size), new_position_value(ps, t, q, p))

\* the total exposure check of a buy
exposure_exceeded(ps, q, p) ==
    RLt(R(max_total_exposure), RAdd(get_total_exposure(ps), RMul(q, p)))

\* the concentration check of a buy: against the portfolio value before the trade,
\* and skipped when that is not positive
concentration_exceeded(ps, t, q, p) ==
    LET portfolio_value == get_portfolio_value(ps)
    IN  IF RLt(Zero, portfolio_value)
        THEN RLt(<<1, 4>>, RDiv(new_position_value(ps, t, q, p), portfolio_value))
        ELSE FALSE

\* the checks of a buy that follow the position size check
buy_exposure_checks(ps, t, q, p) ==
    IF exposure_exceeded(ps, q, p)
    THEN Verdict(FALSE, "Total exposure limit exceeded")
    ELSE IF concentration_exceeded(ps, t, q, p)
         THEN Verdict(FALSE, "Concentration risk")
         ELSE Verdict(TRUE, "Trade validated")

\* validate_trade run by `thread`, from its `with self.lock` on: the verdict it
\* returns, or where it blocks. get_total_exposure and get_portfolio_value take
\* self.lock again while validate_trade holds it.
validate_trade_outcome(ps, thread, t, side, q, p) ==
    IF side = "buy"
    THEN IF position_size_exceeded(ps, t, q, p)
         THEN Returned(Verdict(FALSE, "Position size limit exceeded"))
         ELSE IF Acquirable(thread, thread)
              THEN Returned(buy_exposure_checks(ps, t, q, p))
              ELSE Blocked(thread)
    ELSE IF side = "sell"
         THEN IF t \notin DOMAIN ps
              THEN Returned(Verdict(FALSE, "No position to sell"))
              ELSE IF RLt(ps[t].quantity, q)
                   THEN Returned(Verdict(FALSE, "Insufficient position"))
                   ELSE Returned(Verdict(TRUE, "Trade validated"))
         ELSE Returned(Verdict(TRUE, "Trade validated"))

(* get_risk_metrics *)

RECURSIVE SumUnrealized(_, _)
SumUnrealized(ps, S) ==
    IF S = {} THEN Zero
    ELSE LET t == CHOOSE x \in S : TRUE
         IN  RAdd(ps[t].unrealized_pnl, SumUnrealized(ps, S \ {t}))

\* the RiskMetrics snapshot of the ledger (the figures taken from the positions)
RiskMetrics(ps) ==
    [kind |-> "metrics",
     total_portfolio_value |-> get_portfolio_value(ps),
     total_exposure |-> IF DOMAIN ps = {} THEN Zero ELSE get_portfolio_value(ps),
     total_unrealized_pnl |-> SumUnrealized(ps, DOMAIN ps),
     number_of_positions |-> Cardinality(DOMAIN ps)]

\* get_risk_metrics run by `thread`, from its `with self.lock` on: its first
\* statement calls get_portfolio_value, which takes self.lock again
get_risk_metrics_outcome(ps, thread) ==
    IF Acquirable(thread, thread)
    THEN Returned(RiskMetrics(ps))
    ELSE Blocked(thread)

(* calculate_position_size *)

calculate_position_size(ps, price, confidence_score) ==
    LET portfolio_value == get_portfolio_value(ps)
        base_size_usd == RMin(RMul(portfolio_value, <<1, 100>>),
                              RMul(R(max_position_size), <<1, 10>>))
        adjusted_size_usd == RMul(base_size_usd, confidence_score)
        max_allowed_usd == RMin(R(max_position_size),
                                RSub(R(max_total_exposure), get_total_exposure(ps)))
        final_size_usd == RMin(adjusted_size_usd, max_allowed_usd)
    IN  IF RLe(final_size_usd, Zero) THEN Zero ELSE RDiv(final_size_usd, price)

(* add_position *)

\* (mutant) the plain mean of the old average and the new price
simple_avg_price(pos, q, p) == RDiv(RAdd(pos.avg_entry_price, p), R(2))

\* the volume-weighted entry price after buying q more at price p
new_avg_price(pos, q, p) ==
    LET total_quantity == RAdd(pos.quantity, q)
        total_value == RAdd(RMul(pos.quantity, pos.avg_entry_price), RMul(q, p))
    IN  RDiv(total_value, total_quantity)

\* (mutant) the thresholds follow the blended entry price
updated_position_moving_thresholds(pos, q, p) ==
    [pos EXCEPT !.quantity = RAdd(pos.quantity, q),
                !.avg_entry_price = new_avg_price(pos, q, p),
                !.stop_loss_price = RMul(new_avg_price(pos, q, p), RSub(R(1), stop_loss_pct)),
                !.take_profit_price = RMul(new_avg_price(pos, q, p), RAdd(R(1), take_profit_pct))]

\* add_position on a token that has a position: only quantity and average change
updated_position(pos, q, p) ==
    [pos EXCEPT !.quantity = RAdd(pos.quantity, q),
                !.avg_entry_price = new_avg_price(pos, q, p)]

\* add_position on a token that has none
new_position(q, p) ==
    [quantity |-> q,
     avg_entry_price |-> p,
     current_price |-> p,
     unrealized_pnl |-> Zero,
     realized_pnl |-> Zero,
     stop_loss_price |-> RMul(p, RSub(R(1), stop_loss_pct)),
     take_profit_price |-> RMul(p, RAdd(R(1), take_profit_pct))]

\* the ledger after add_position(t, q, p)
add_position_to(ps, t, q, p) ==
    [k \in DOMAIN ps \cup {t} |->
        IF k # t THEN ps[k]
        ELSE IF t \in DOMAIN ps
             THEN updated_position(ps[t], q, p)
             ELSE new_position(q, p)]

\* history of the buys of a token since its position was opened
bought_after_add(b, t, q, p) ==
    [b EXCEPT ![t] = [@ EXCEPT !.quantity = RAdd(@, q),
                               !.cost = RAdd(@, RMul(q, p))]]

(* reduce_position *)

\* (mutant) the held quantity is not checked
reduce_rejected_no_quantity_check(ps, t, q) == t \notin DOMAIN ps

\* the two early returns of reduce_position
reduce_rejected(ps, t, q) ==
    \/ t \notin DOMAIN ps
    \/ RLt(ps[t].quantity, q)

\* (mutant) the PnL is taken against the current price, not the entry price
realized_pnl_from_current(pos, q, exit_price) == RMul(q, RSub(exit_price, pos.current_price))

\* realized_pnl = quantity * (exit_price - position.avg_entry_price)
realized_pnl_of(pos, q, exit_price) == RMul(q, RSub(exit_price, pos.avg_entry_price))

reduced_position(pos, q, exit_price) ==
    [pos EXCEPT !.quantity = RSub(pos.quantity, q),
                !.realized_pnl = RAdd(pos.realized_pnl, realized_pnl_of(pos, q, exit_price))]

\* (mutant) a position reduced to exactly 0 stays in the ledger
closed_only_below_zero(pos) == RLt(pos.quantity, Zero)

\* whether reduce_position pops a position it has reduced to this one
fully_closed(pos) == RLe(pos.quantity, Zero)

\* the ledger after a reduce_position(t, q, exit_price) that is not rejected
reduce_position_to(ps, t, q, exit_price) ==
    LET pos == reduced_position(ps[t], q, exit_price)
    IN  IF fully_closed(pos)
        THEN [k \in DOMAIN ps \ {t} |-> ps[k]]
        ELSE [ps EXCEPT ![t] = pos]

\* _record_trade: append, keep the last HistoryCap records
record_trade(h, t, side, q, p, pnl) ==
    LET a == Append(h, [token_address |-> t, side |-> side, quantity |-> q,
                        price |-> p, realized_pnl |-> pnl])
    IN  IF Len(a) > HistoryCap
        THEN SubSeq(a, Len(a) - HistoryCap + 1, Len(a))
        ELSE a

\* (mutant) the trade is recorded before the early returns, with no PnL yet
history_records_every_call(h, ps, t, q, exit_price) ==
    record_trade(h, t, "sell", q, exit_price,
                 IF reduce_rejected(ps, t, q) THEN Zero
                 ELSE realized_pnl_of(ps[t], q, exit_price))

\* the trade history after reduce_position(t, q, exit_price)
history_after_reduce(h, ps, t, q, exit_price) ==
    IF reduce_rejected(ps, t, q)
    THEN h
    ELSE record_trade(h, t, "sell", q, exit_price, realized_pnl_of(ps[t], q, exit_price))

\* what reduce_position(t, q, exit_price) returns
reduce_result(ps, t, q, exit_price) ==
    IF reduce_rejected(ps, t, q) THEN None ELSE Float(realized_pnl_of(ps[t], q, exit_price))

\* the ledger after reduce_position(t, q, exit_price)
ledger_after_reduce(ps, t, q, exit_price) ==
    IF reduce_rejected(ps, t, q) THEN ps ELSE reduce_position_to(ps, t, q, exit_price)

bought_after_reduce(b, ps, t, q, exit_price) ==
    IF reduce_rejected(ps, t, q) THEN b
    ELSE IF t \notin DOMAIN ledger_after_reduce(ps, t, q, exit_price)
         THEN [b EXCEPT ![t] = NotBought]
         ELSE [b EXCEPT ![t].sold = TRUE]

(* update_prices *)

\* prices the market may quote: 1, below the stop loss of a position entered at 2
\* and between the thresholds of one entered at 1 (0.85, 1.50); and 1.70, the stop
\* loss of a position entered at 2 and above the take profit of one entered at 1
MarketPrices == {R(1), <<17, 10>>}

PriceMaps == UNION {[S -> MarketPrices] : S \in SUBSET Tokens}

\* the ledger after update_prices(price_updates)
update_prices_to(ps, price_updates) ==
    [t \in DOMAIN ps |->
        IF t \in DOMAIN price_updates
        THEN [ps[t] EXCEPT
                !.current_price = price_updates[t],
                !.unrealized_pnl = RMul(ps[t].quantity,
                                        RSub(price_updates[t], ps[t].avg_entry_price))]
        ELSE ps[t]]

(* check_stop_losses *)

\* (mutant) a price exactly at a threshold does not fire it
trigger_of_strict(pos) ==
    IF pos.stop_loss_price # Zero /\ RLt(pos.current_price, pos.stop_loss_price)
    THEN "stop_loss"
    ELSE IF pos.take_profit_price # Zero /\ RLt(pos.take_profit_price, pos.current_price)
         THEN "take_profit"
         ELSE "none"

\* the trigger check_stop_losses emits for a position: the stop loss is checked
\* first, the take profit only when the stop loss did not fire
trigger_of(pos) ==
    IF pos.stop_loss_price # Zero /\ RLe(pos.current_price, pos.stop_loss_price)
    THEN "stop_loss"
    ELSE IF pos.take_profit_price # Zero /\ RLe(pos.take_profit_price, pos.current_price)
         THEN "take_profit"
         ELSE "none"

\* the tokens check_stop_losses returns a trigger for
check_stop_losses(ps) == {t \in DOMAIN ps : trigger_of(ps[t]) # "none"}

\* the list check_stop_losses returns: one descriptor per trigger
Triggers(v) == [kind |-> "triggers", value |-> v]
stop_loss_triggers(ps) ==
    {[token_address |-> t, action |-> trigger_of(ps[t]),
      current_price |-> ps[t].current_price, quantity |-> ps[t].quantity] :
        t \in check_stop_losses(ps)}

(* -------------------------------- Trader -------------------------------- *)

\* The Trader's methods run one after another inside execute_trade; each is an
\* operator from the state w it finds (ledger, history, counters) to its outcome:
\* the state it leaves, where the thread is, the lock, and what it returned.

World == [positions |-> positions, trade_history |-> trade_history, bought |-> bought,
          total_trades |-> total_trades, successful_trades |-> successful_trades,
          failed_trades |-> failed_trades, open_orders |-> open_orders]

Done(w, result) == [w |-> w, pc |-> "idle", lock |-> Free, ret |-> Bool(result)]
HandOff(w, where) == [w |-> w, pc |-> where, lock |-> Free, ret |-> NoReturn]

counted_success(w) ==
    [w EXCEPT !.successful_trades = @ + 1, !.total_trades = @ + 1]

\* _paper_trade_buy: add_position, then save_order_status (which may raise), then
\* the counters
paper_trade_buy(w, t, quantity, price, save_fails) ==
    LET w1 == [w EXCEPT !.positions = add_position_to(w.positions, t, quantity, price),
                        !.bought = bought_after_add(w.bought, t, quantity, price)]
    IN  IF save_fails
        THEN Done(w1, FALSE)
        ELSE Done(counted_success(w1), TRUE)

\* _execute_buy
execute_buy(w, t, price, confidence_score, save_fails) ==
    LET quantity == calculate_position_size(w.positions, price, confidence_score)
        out == validate_trade_outcome(w.positions, Main, t, "buy", quantity, price)
    IN  IF RLe(quantity, Zero)
        THEN Done(w, FALSE)
        ELSE IF out.pc # "idle"
             THEN [w |-> w, pc |-> out.pc, lock |-> out.lock, ret |-> NoReturn]
             ELSE IF ~out.ret.allowed
                  THEN Done(w, FALSE)
                  ELSE IF paper_trading
                       THEN paper_trade_buy(w, t, quantity, price, save_fails)
                       ELSE HandOff(w, "real_trade_buy")

\* _paper_trade_sell: reduce_position, then save_order_status (which may raise),
\* then the counters, then a log line that formats the realized PnL as a float
paper_trade_sell(w, t, quantity, price, save_fails) ==
    LET w1 == [w EXCEPT
                 !.positions = ledger_after_reduce(w.positions, t, quantity, price),
                 !.trade_history = history_after_reduce(w.trade_history, w.positions,
                                                        t, quantity, price),
                 !.bought = bought_after_reduce(w.bought, w.positions, t, quantity, price)]
        realized_pnl == reduce_result(w.positions, t, quantity, price)
    IN  IF save_fails
        THEN Done(w1, FALSE)
        ELSE IF realized_pnl = None
             THEN Done(counted_success(w1), FALSE)
             ELSE Done(counted_success(w1), TRUE)

\* (mutant) half of the held quantity is sold
execute_sell_partly(w, t, price, save_fails) ==
    IF t \notin DOMAIN w.positions
    THEN Done(w, TRUE)
    ELSE paper_trade_sell(w, t, RDiv(w.positions[t].quantity, R(2)), price, save_fails)

\* _execute_sell: the full held quantity; no position is not an error
execute_sell(w, t, price, save_fails) ==
    IF t \notin DOMAIN w.positions
    THEN Done(w, TRUE)
    ELSE IF paper_trading
         THEN paper_trade_sell(w, t, w.positions[t].quantity, price, save_fails)
         ELSE HandOff(w, "real_trade_sell")

\* (mutant) the result of the sell is what the pass returns
check_position_management_reporting(w, t, price, save_fails) ==
    LET w1 == [w EXCEPT !.positions = update_prices_to(w.positions, [k \in {t} |-> R(price)])]
    IN  IF t \in check_stop_losses(w1.positions)
        THEN execute_sell(w1, t, R(price), save_fails)
        ELSE Done(w1, TRUE)

\* (mutant) the price is pushed to every position
check_position_management_repricing_all(w, t, price, save_fails) ==
    LET w1 == [w EXCEPT !.positions = update_prices_to(w.positions,
                                                       [k \in Tokens |-> R(price)])]
    IN  IF t \in check_stop_losses(w1.positions)
        THEN [execute_sell(w1, t, R(price), save_fails) EXCEPT !.ret = Bool(TRUE)]
        ELSE Done(w1, TRUE)

\* _check_position_management: push the price of this token, then sell it when
\* check_stop_losses returns a trigger for it; the sell's result is dropped
check_position_management(w, t, price, save_fails) ==
    LET w1 == [w EXCEPT !.positions = update_prices_to(w.positions, [k \in {t} |-> R(price)])]
    IN  IF t \in check_stop_losses(w1.positions)
        THEN [execute_sell(w1, t, R(price), save_fails) EXCEPT !.ret = Bool(TRUE)]
        ELSE Done(w1, TRUE)

\* token_info: its price_usd (0 when it is missing), a number or (numeric = FALSE)
\* something a number cannot be compared with
TokenInfos ==
    [price_usd : Prices \cup {0, -1}, numeric : {TRUE}]
        \cup {[price_usd |-> 0, numeric |-> FALSE]}
Ratings == {"bullish", "bearish", "neutral"}

\* (mutant) an exception inside execute_trade reaches the caller
raised_by_execute_trade(w) ==
    [w |-> w, pc |-> "idle", lock |-> Free, ret |-> Raised("Exception")]

\* the except clause of execute_trade: count the failure, return False
caught_by_execute_trade(w) == Done([w EXCEPT !.failed_trades = @ + 1], FALSE)

\* execute_trade
execute_trade_outcome(w, t, rating, token_info, confidence_score, save_fails) ==
    IF ~token_info.numeric
    THEN caught_by_execute_trade(w)
    ELSE IF token_info.price_usd <= 0
         THEN Done(w, FALSE)
         ELSE IF rating = "bullish"
              THEN execute_buy(w, t, R(token_info.price_usd), confidence_score, save_fails)
              ELSE IF rating = "bearish"
                   THEN execute_sell(w, t, R(token_info.price_usd), save_fails)
                   ELSE check_position_management(w, t, token_info.price_usd, save_fails)

(* update_all_positions, emergency_stop: loops of sells *)

TokensOf(queue) == {queue[i].token : i \in DOMAIN queue}

\* the orders in which a loop may go through the set S (the ledger is a dict: the
\* order is the one its keys were inserted in, which the model does not keep)
Orderings(S) ==
    {q \in [1..Cardinality(S) -> S] :
        \A i, k \in 1..Cardinality(S) : q[i] = q[k] => i = k}

\* the sells of a loop over the tokens in `order`, each at the token's current price
sells_of(ps, order) ==
    [i \in DOMAIN order |-> [token |-> order[i], price |-> ps[order[i]].current_price]]

\* the _execute_sell calls of a loop from the head of `queue` on, up to the first one
\* that has to wait for the broker: the state they leave and the sells still to make.
\* `failing`: the tokens for whose paper order save_order_status raises.
RECURSIVE sell_queue(_, _, _)
sell_queue(w, queue, failing) ==
    IF queue = <<>>
    THEN [w |-> w, queue |-> <<>>]
    ELSE LET out == execute_sell(w, Head(queue).token, Head(queue).price,
                                 Head(queue).token \in failing)
         IN  IF out.pc = "real_trade_sell"
             THEN [w |-> w, queue |-> queue]
             ELSE sell_queue(out.w, Tail(queue), failing)

(* live orders: _real_trade_buy, _real_trade_sell, monitor_order *)

Statuses == {"pending", "partial", "filled", "cancelled", "failed", "rejected", "unknown"}

\* what gmgn.check_order_status may do: return a status, raise an APIException, or
\* raise another exception (the rate limiter raises a plain Exception)
PollResponses == Statuses \cup {"APIException", "Exception"}

\* what gmgn.place_order may do
PlaceResponses ==
    {"order_id", "no_order_id", "APIException", "InsufficientFundsException",
     "InvalidTokenException"}

\* the id the broker gives the order a thread places
placed_order_id(th) ==
    IF th = Main THEN "order_main"
    ELSE IF th = Worker THEN "order_worker" ELSE "order_shutdown"

counted_failure(w) ==
    [w EXCEPT !.failed_trades = @ + 1, !.total_trades = @ + 1]

\* the thread starts the sell at the head of queue: everything held of the token
sell_order(j, ps, queue) ==
    [j EXCEPT !.at = "place_order", !.side = "sell",
              !.token = Head(queue).token,
              !.quantity = ps[Head(queue).token].quantity,
              !.price = Head(queue).price,
              !.queue = Tail(queue),
              !.attempt = 0, !.order_id = "none", !.elapsed = 0, !.timeout = 0,
              !.current_status = "none", !.ended = "none", !.cancels = 0,
              !.place_response = "none",
              !.attempted = @ \cup {Head(queue).token}]

\* what the handler returns once its loop is over, its last trade having returned
\* `result`: execute_trade (bearish), _real_trade_buy and monitor_order return it,
\* execute_trade (neutral) and emergency_stop return True, update_all_positions None
handler_returns(j, result) ==
    IF j.returns = "result" THEN result
    ELSE IF j.returns = "true" THEN Bool(TRUE) ELSE None

\* the handler of a thread goes on after a trade: the sells left in its loop, up to
\* the next one that waits for the broker, and then its return
handler_goes_on(w, j, result, failing) ==
    LET rest == sell_queue(w, j.queue, failing)
        j1 == [j EXCEPT !.attempted = @ \cup (TokensOf(j.queue) \ TokensOf(rest.queue))]
    IN  IF rest.queue = <<>>
        THEN [w |-> rest.w,
              j |-> [NoJob EXCEPT !.op = j.op,
                                  !.current_status = j.current_status,
                                  !.ended = j.ended, !.cancels = j.cancels,
                                  !.listed = j.listed, !.attempted = j1.attempted,
                                  !.cancel_attempts = j.cancel_attempts,
                                  !.cancel_failed = j.cancel_failed,
                                  !.ret = handler_returns(j, result)]]
        ELSE [w |-> rest.w, j |-> sell_order(j1, rest.w.positions, rest.queue)]

\* monitor_order starts: the order is tracked, the clock starts
monitor_begins(w, j, order_id, timeout) ==
    [w |-> [w EXCEPT !.open_orders = @ \cup {order_id}],
     j |-> [j EXCEPT !.at = "check_order_status", !.order_id = order_id,
                     !.elapsed = 0, !.timeout = timeout,
                     !.current_status = "none", !.ended = "none", !.cancels = 0]]

\* (mutant) the ledger is updated whatever monitor_order returned
trade_settled_unconditionally(w, j, filled) ==
    IF j.side = "none"
    THEN w
    ELSE IF j.side = "buy"
         THEN counted_success(
                  [w EXCEPT !.positions = add_position_to(w.positions, j.token,
                                                          j.quantity, j.price),
                            !.bought = bought_after_add(w.bought, j.token,
                                                        j.quantity, j.price)])
         ELSE counted_success(
                  [w EXCEPT !.positions = ledger_after_reduce(w.positions, j.token,
                                                              j.quantity, j.price),
                            !.trade_history = history_after_reduce(
                                w.trade_history, w.positions, j.token, j.quantity,
                                j.price),
                            !.bought = bought_after_reduce(w.bought, w.positions, j.token,
                                                           j.quantity, j.price)])

\* _real_trade_buy and _real_trade_sell after monitor_order returned `filled`: the
\* ledger and the counters (nothing when monitor_order was called on its own)
trade_settled(w, j, filled) ==
    IF j.side = "none"
    THEN w
    ELSE IF ~filled
         THEN counted_failure(w)
         ELSE trade_settled_unconditionally(w, j, filled)

\* (mutant) the backoff wrapper places the order of a trade again when monitor_order
\* returned false
monitor_returns_placing_again(w, j, filled, how) ==
    IF ~filled /\ j.side # "none" /\ j.attempt < max_retries
    THEN [w |-> counted_failure([w EXCEPT !.open_orders = @ \ {j.order_id}]),
          j |-> [j EXCEPT !.at = "place_order", !.attempt = @ + 1, !.ended = how]]
    ELSE handler_goes_on(trade_settled([w EXCEPT !.open_orders = @ \ {j.order_id}],
                                       j, filled),
                         [j EXCEPT !.ended = how], Bool(filled), {})

\* monitor_order returns `filled`, having ended in the way `how`: the order is no
\* longer tracked, the trade is settled and the handler goes on
monitor_returns(w, j, filled, how) ==
    handler_goes_on(trade_settled([w EXCEPT !.open_orders = @ \ {j.order_id}], j, filled),
                    [j EXCEPT !.ended = how], Bool(filled), {})

\* one pass of the polling loop of monitor_order: the broker's response, then
\* save_order_status (which may raise), then the status
monitor_polls(w, j, response, save_fails) ==
    IF response = "APIException"
    THEN [w |-> w, j |-> [j EXCEPT !.elapsed = @ + error_pause]]
    ELSE IF response = "Exception"
         THEN monitor_returns(w, j, FALSE, "poll_error")
         ELSE LET j1 == [j EXCEPT !.current_status = response]
              IN  IF save_fails
                  THEN monitor_returns(w, j1, FALSE, "error")
                  ELSE IF response = "filled"
                       THEN monitor_returns(w, j1, TRUE, "status")
                       ELSE IF response \in {"cancelled", "failed", "rejected"}
                            THEN monitor_returns(w, j1, FALSE, "status")
                            ELSE [w |-> w, j |-> [j1 EXCEPT !.elapsed = @ + poll_interval]]

\* (mutant) the order is cancelled in paper mode too, and twice when live
timed_out_cancelling_again(w, j, cancel_raises) ==
    monitor_returns(w, [j EXCEPT !.cancels = IF paper_trading THEN @ + 1 ELSE @ + 2],
                    FALSE, "timeout")

\* the loop of monitor_order ran out of time: in live mode cancel_order is called,
\* and what it raises is logged
timed_out(w, j, cancel_raises) ==
    IF paper_trading
    THEN monitor_returns(w, j, FALSE, "timeout")
    ELSE monitor_returns(w, [j EXCEPT !.cancels = @ + 1,
                                      !.cancel_failed = IF cancel_raises
                                                        THEN @ \cup {j.order_id} ELSE @],
                         FALSE, "timeout")

\* (mutant) the backoff wrapper runs the trade again after any error of place_order
place_order_returns_retrying_all(w, j0, th, response) ==
    LET j == [j0 EXCEPT !.place_response = response]
    IN  IF response = "order_id"
        THEN monitor_begins(w, j, placed_order_id(th), default_timeout)
        ELSE IF j.attempt < max_retries
             THEN [w |-> w, j |-> [j EXCEPT !.attempt = @ + 1]]
             ELSE handler_goes_on(w, j, Bool(FALSE), {})

\* gmgn.place_order answered the order of thread th: with an id monitor_order takes
\* over; an APIException is raised again and the backoff wrapper runs the trade
\* again, max_retries times, before it raises it to the caller (_execute_sell, which
\* returns False, or whoever called _real_trade_buy); anything else returns False
place_order_returns(w, j0, th, response) ==
    LET j == [j0 EXCEPT !.place_response = response]
    IN  IF response = "order_id"
        THEN monitor_begins(w, j, placed_order_id(th), default_timeout)
        ELSE IF response = "APIException"
             THEN IF j.attempt < max_retries
                  THEN [w |-> w, j |-> [j EXCEPT !.attempt = @ + 1]]
                  ELSE handler_goes_on(w, j,
                                       IF j.side = "sell" THEN Bool(FALSE)
                                       ELSE Raised("APIException"), {})
             ELSE handler_goes_on(w, j, Bool(FALSE), {})

\* (mutant) only the positions that got a new price are sold
update_all_positions_priced_only(w, price_updates, order, failing) ==
    LET w1 == [w EXCEPT !.positions = update_prices_to(w.positions, price_updates)]
    IN  handler_goes_on(w1,
                        [NoJob EXCEPT !.op = "update_all_positions", !.returns = "none",
                                      !.queue = sells_of(w1.positions,
                                                         SelectSeq(order,
                                                             LAMBDA k : k \in DOMAIN price_updates))],
                        None, failing)

\* update_all_positions: push the prices, then sell every position that
\* check_stop_losses returns a trigger for, at its current price
update_all_positions_outcome(w, price_updates, order, failing) ==
    LET w1 == [w EXCEPT !.positions = update_prices_to(w.positions, price_updates)]
    IN  handler_goes_on(w1,
                        [NoJob EXCEPT !.op = "update_all_positions", !.returns = "none",
                                      !.queue = sells_of(w1.positions, order)],
                        None, failing)

\* (mutant) a cancel_order that raises ends emergency_stop: it returns False
emergency_stop_aborting(w, cancel_raises, order, failing) ==
    IF ~paper_trading /\ w.open_orders \cap cancel_raises # {}
    THEN [w |-> w,
          j |-> [NoJob EXCEPT !.op = "emergency_stop", !.listed = DOMAIN w.positions,
                              !.cancel_attempts = w.open_orders \cap cancel_raises,
                              !.cancel_failed = w.open_orders \cap cancel_raises,
                              !.ret = Bool(FALSE)]]
    ELSE handler_goes_on([w EXCEPT !.open_orders = {}],
                         [NoJob EXCEPT !.op = "emergency_stop", !.returns = "true",
                                       !.queue = sells_of(w.positions, order),
                                       !.listed = DOMAIN w.positions,
                                       !.cancel_attempts = IF paper_trading THEN {}
                                                           ELSE w.open_orders],
                         Bool(TRUE), failing)

\* emergency_stop: cancel every tracked order (live mode; one whose cancel_order
\* raises stays tracked), then sell every position emergency_close_all lists, at
\* its current price
emergency_stop_outcome(w, cancel_raises, order, failing) ==
    handler_goes_on([w EXCEPT !.open_orders = IF paper_trading THEN {}
                                              ELSE @ \cap cancel_raises],
                    [NoJob EXCEPT !.op = "emergency_stop", !.returns = "true",
                                  !.queue = sells_of(w.positions, order),
                                  !.listed = DOMAIN w.positions,
                                  !.cancel_attempts = IF paper_trading THEN {}
                                                      ELSE w.open_orders,
                                  !.cancel_failed = IF paper_trading THEN {}
                                                    ELSE w.open_orders \cap cancel_raises],
                    Bool(TRUE), failing)

(* threads in paper mode: the blocks under the lock, one step each way *)

\* the methods of the RiskManager that write the ledger or read it for the triggers
Sections == {"update_prices", "check_stop_losses", "reduce_position"}

\* the loop of the handler goes on to its next sell, or the handler returns
loop_goes_on(j, result) ==
    IF j.queue = <<>>
    THEN [NoJob EXCEPT !.op = j.op, !.attempted = j.attempted,
                       !.ret = handler_returns(j, result)]
    ELSE [j EXCEPT !.at = "execute_sell"]

\* _execute_sell looks the position up, without the lock: none is a success;
\* otherwise its quantity is what the sell is for
execute_sell_begins(w, j) ==
    LET head == Head(j.queue)
    IN  IF head.token \notin DOMAIN w.positions
        THEN loop_goes_on([j EXCEPT !.queue = Tail(@)], Bool(TRUE))
        ELSE IF paper_trading
             THEN [j EXCEPT !.at = "reduce_position", !.side = "sell",
                            !.token = head.token,
                            !.quantity = w.positions[head.token].quantity,
                            !.price = head.price, !.queue = Tail(@),
                            !.attempted = @ \cup {head.token}]
             ELSE sell_order(j, w.positions, j.queue)

\* _paper_trade_sell from the `with self.lock` of reduce_position on: the ledger
\* and the history, the lock released, then the order saved and the counters
reduce_position_ends(w, j, save_fails) ==
    LET out == paper_trade_sell(w, j.token, j.quantity, j.price, save_fails)
    IN  [w |-> out.w, j |-> loop_goes_on([j EXCEPT !.inside = FALSE], out.ret)]

\* update_prices from its `with self.lock` on
update_prices_ends(w, j) ==
    [w |-> [w EXCEPT !.positions = update_prices_to(w.positions, j.price_updates)],
     j |-> [j EXCEPT !.at = "check_stop_losses", !.inside = FALSE,
                     !.price_updates = <<>>]]

\* check_stop_losses from its `with self.lock` on, and what the caller makes of the
\* triggers: _check_position_management a sell of its token at the price it
\* pushed, update_all_positions a sell of each at the price of the trigger
check_stop_losses_ends(w, j, order) ==
    LET queue == IF j.op = "execute_trade"
                 THEN IF j.token \in check_stop_losses(w.positions)
                      THEN <<[token |-> j.token, price |-> j.price]>>
                      ELSE <<>>
                 ELSE sells_of(w.positions, order)
    IN  [w |-> w,
         j |-> loop_goes_on([j EXCEPT !.queue = queue, !.inside = FALSE], Bool(TRUE))]

\* execute_trade up to the first call it makes on the RiskManager
execute_trade_begins(w, t, rating, token_info, confidence_score) ==
    LET j == [NoJob EXCEPT !.op = "execute_trade", !.token = t,
                           !.price = R(token_info.price_usd)]
    IN  IF ~token_info.numeric
        THEN [w |-> caught_by_execute_trade(w).w, j |-> loop_goes_on(j, Bool(FALSE))]
        ELSE IF token_info.price_usd <= 0
             THEN [w |-> w, j |-> loop_goes_on(j, Bool(FALSE))]
             ELSE IF rating = "bullish"
                  THEN [w |-> w,
                        j |-> [j EXCEPT !.at = "execute_buy", !.returns = "result",
                                        !.confidence_score = confidence_score]]
                  ELSE IF rating = "bearish"
                       THEN [w |-> w,
                             j |-> [j EXCEPT !.at = "execute_sell", !.returns = "result",
                                             !.queue = <<[token |-> t, price |-> j.price]>>]]
                       ELSE [w |-> w,
                             j |-> [j EXCEPT !.at = "update_prices", !.returns = "true",
                                             !.price_updates = [k \in {t} |-> j.price]]]

\* _execute_buy, from the lock it takes in get_portfolio_value on: it returns, or
\* the thread stays in validate_trade with the lock
execute_buy_ends(w, j, save_fails) ==
    LET out == execute_buy(w, j.token, j.price, j.confidence_score, save_fails)
    IN  IF out.pc = "idle"
        THEN [w |-> out.w, j |-> loop_goes_on(j, out.ret), lock |-> Free]
        ELSE [w |-> out.w, j |-> [j EXCEPT !.at = out.pc], lock |-> out.lock]

(* get_portfolio_summary *)

\* get_portfolio_summary: the RiskMetrics of get_risk_metrics and the counters
get_portfolio_summary_outcome(w, thread) ==
    LET out == get_risk_metrics_outcome(w.positions, thread)
    IN  IF out.pc # "idle"
        THEN out
        ELSE Returned([kind |-> "summary",
                       portfolio_value |-> out.ret.total_portfolio_value,
                       total_exposure |-> out.ret.total_exposure,
                       number_of_positions |-> out.ret.number_of_positions,
                       unrealized_pnl |-> out.ret.total_unrealized_pnl,
                       total_trades |-> w.total_trades,
                       successful_trades |-> w.successful_trades,
                       failed_trades |-> w.failed_trades,
                       open_orders |-> Cardinality(w.open_orders),
                       paper_trading |-> paper_trading])

(* health_check *)

\* success_rate as health_check and get_portfolio_summary compute it
success_rate(w) ==
    IF w.total_trades > 0 THEN Rat(w.successful_trades, w.total_trades) ELSE Zero

\* the limit the success rate is compared with: 0.7
healthy_rate == <<7, 10>>

\* what health_check returns; gmgn_reachable: what gmgn.health_check() answers;
\* stuck: the tracked orders that are older than 10 minutes
health_status(w, gmgn_reachable, stuck) ==
    LET gmgn_healthy == IF ~paper_trading THEN gmgn_reachable ELSE TRUE
    IN  [kind |-> "health",
         gmgn_connection |-> gmgn_healthy,
         open_orders_count |-> Cardinality(w.open_orders),
         stuck_orders |-> stuck,
         total_trades |-> w.total_trades,
         success_rate |-> success_rate(w),
         overall_healthy |-> /\ gmgn_healthy
                             /\ Cardinality(stuck) = 0
                             /\ RLt(healthy_rate, success_rate(w))]

(* ------------------------------- actions -------------------------------- *)

\* a call may start: the caller is not inside another call, and the call budget
CanCall == pc = "idle" /\ ncalls < MaxCalls

add_position(t, q, p) ==
    /\ CanCall
    /\ Acquirable(lock, Main)
    /\ positions' = add_position_to(positions, t, R(q), R(p))
    /\ bought' = bought_after_add(bought, t, R(q), R(p))
    /\ call' = [op |-> "add_position", token |-> t, quantity |-> R(q), price |-> R(p)]
    /\ ret' = None
    /\ ncalls' = ncalls + 1
    /\ UNCHANGED <<trade_history, lock, pc, trader_counters, order_state>>

reduce_position(t, q, exit_price) ==
    /\ CanCall
    /\ Acquirable(lock, Main)
    /\ positions' = ledger_after_reduce(positions, t, R(q), R(exit_price))
    /\ trade_history' = history_after_reduce(trade_history, positions, t, R(q), R(exit_price))
    /\ bought' = bought_after_reduce(bought, positions, t, R(q), R(exit_price))
    /\ call' = [op |-> "reduce_position", token |-> t, quantity |-> R(q),
                price |-> R(exit_price)]
    /\ ret' = reduce_result(positions, t, R(q), R(exit_price))
    /\ ncalls' = ncalls + 1
    /\ UNCHANGED <<lock, pc, trader_counters, order_state>>

update_prices(price_updates) ==
    /\ CanCall
    /\ Acquirable(lock, Main)
    /\ positions' = update_prices_to(positions, price_updates)
    /\ call' = [op |-> "update_prices"]
    /\ ret' = None
    /\ ncalls' = ncalls + 1
    /\ UNCHANGED <<trade_history, lock, pc, bought, trader_counters, order_state>>

call_check_stop_losses ==
    /\ CanCall
    /\ Acquirable(lock, Main)
    /\ call' = [op |-> "check_stop_losses"]
    /\ ret' = Triggers(stop_loss_triggers(positions))
    /\ ncalls' = ncalls + 1
    /\ UNCHANGED <<positions, trade_history, lock, pc, bought, trader_counters, order_state>>

validate_trade(t, side, q, p) ==
    /\ CanCall
    /\ Acquirable(lock, Main)
    /\ \E out \in {validate_trade_outcome(positions, Main, t, side, R(q), R(p))} :
           /\ pc' = out.pc
           /\ lock' = out.lock
           /\ ret' = out.ret
    /\ call' = [op |-> "validate_trade", token |-> t, side |-> side,
                quantity |-> R(q), price |-> R(p)]
    /\ ncalls' = ncalls + 1
    /\ UNCHANGED <<positions, trade_history, bought, trader_counters, order_state>>

execute_trade(t, rating, token_info, confidence_score, save_fails) ==
    /\ CanCall
    /\ Acquirable(lock, Main)
    /\ \E out \in {execute_trade_outcome(World, t, rating, token_info,
                                         confidence_score, save_fails)} :
           /\ positions' = out.w.positions
           /\ trade_history' = out.w.trade_history
           /\ bought' = out.w.bought
           /\ total_trades' = out.w.total_trades
           /\ successful_trades' = out.w.successful_trades
           /\ failed_trades' = out.w.failed_trades
           /\ open_orders' = out.w.open_orders
           /\ pc' = out.pc
           /\ lock' = out.lock
           /\ ret' = IF out.pc = "idle" THEN out.ret ELSE NoReturn
           /\ jobs' = IF out.pc = "real_trade_sell"
                      THEN [jobs EXCEPT ![Main] =
                               sell_order([NoJob EXCEPT
                                             !.op = "execute_trade",
                                             !.returns = IF rating = "neutral"
                                                         THEN "true" ELSE "result"],
                                          out.w.positions,
                                          <<[token |-> t,
                                             price |-> R(token_info.price_usd)]>>)]
                      ELSE jobs
    /\ call' = [op |-> "execute_trade", token |-> t, rating |-> rating,
                token_info |-> token_info, confidence_score |-> confidence_score,
                save_fails |-> save_fails]
    /\ ncalls' = ncalls + 1
    /\ UNCHANGED paper_trading

\* the state w of the ledger, the history, the counters and the tracked orders
Leaves(w) ==
    /\ positions' = w.positions
    /\ trade_history' = w.trade_history
    /\ bought' = w.bought
    /\ total_trades' = w.total_trades
    /\ successful_trades' = w.successful_trades
    /\ failed_trades' = w.failed_trades
    /\ open_orders' = w.open_orders

\* thread th calls a Trader method (the call c), which leaves out.w and out.j and
\* has the thread at `where` until it returns. The shutdown thread makes one call.
Begins(th, c, where, out) ==
    /\ jobs[th].at = "idle"
    /\ Acquirable(lock, th)
    /\ IF th = Main THEN CanCall ELSE jobs[th].op = "none"
    /\ \E o \in {out} :
          /\ Leaves(o.w)
          /\ jobs' = [jobs EXCEPT ![th] = o.j]
          /\ IF th = Main
             THEN /\ call' = c
                  /\ ncalls' = ncalls + 1
                  /\ ret' = o.j.ret
                  /\ pc' = IF o.j.at = "idle" THEN "idle" ELSE where
             ELSE UNCHANGED <<call, ncalls, ret, pc>>
    /\ UNCHANGED <<lock, paper_trading>>

\* thread th goes one broker call further in the method it is in
Steps(th, out) ==
    /\ Acquirable(lock, th)
    /\ \E o \in {out} :
          /\ Leaves(o.w)
          /\ jobs' = [jobs EXCEPT ![th] = o.j]
          /\ IF th = Main
             THEN /\ ret' = o.j.ret
                  /\ pc' = IF o.j.at = "idle" THEN "idle" ELSE pc
             ELSE UNCHANGED <<ret, pc>>
    /\ UNCHANGED <<lock, call, ncalls, paper_trading>>

get_risk_metrics ==
    /\ CanCall
    /\ Acquirable(lock, Main)
    /\ \E out \in {get_risk_metrics_outcome(positions, Main)} :
           /\ pc' = out.pc
           /\ lock' = out.lock
           /\ ret' = out.ret
    /\ call' = [op |-> "get_risk_metrics"]
    /\ ncalls' = ncalls + 1
    /\ UNCHANGED <<positions, trade_history, bought, trader_counters, order_state>>

get_portfolio_summary ==
    /\ CanCall
    /\ Acquirable(lock, Main)
    /\ \E out \in {get_portfolio_summary_outcome(World, Main)} :
           /\ pc' = out.pc
           /\ lock' = out.lock
           /\ ret' = out.ret
    /\ call' = [op |-> "get_portfolio_summary"]
    /\ ncalls' = ncalls + 1
    /\ UNCHANGED <<positions, trade_history, bought, trader_counters, order_state>>

health_check(gmgn_reachable, stuck) ==
    /\ CanCall
    /\ stuck \subseteq open_orders
    /\ call' = [op |-> "health_check", gmgn_reachable |-> gmgn_reachable, stuck |-> stuck]
    /\ ret' = health_status(World, gmgn_reachable, stuck)
    /\ ncalls' = ncalls + 1
    /\ UNCHANGED <<positions, trade_history, lock, pc, bought, trader_counters,
                   order_state>>

\* thread th gets on in the method it is in: it leaves the state w, is at j and the
\* lock is l
Moves(th, w, j, l) ==
    /\ Leaves(w)
    /\ jobs' = [jobs EXCEPT ![th] = j]
    /\ lock' = l
    /\ IF th = Main
       THEN /\ ret' = j.ret
            /\ pc' = IF j.at = "idle" THEN "idle" ELSE j.at
       ELSE UNCHANGED <<ret, pc>>
    /\ UNCHANGED paper_trading

\* the decision loop calls execute_trade
execute_trade_called(t, rating, token_info, confidence_score) ==
    /\ CanCall
    /\ jobs[Main].at = "idle"
    /\ \E o \in {execute_trade_begins(World, t, rating, token_info, confidence_score)} :
          Moves(Main, o.w, o.j, lock)
    /\ call' = [op |-> "execute_trade", token |-> t, rating |-> rating,
                token_info |-> token_info, confidence_score |-> confidence_score]
    /\ ncalls' = ncalls + 1

\* another thread calls update_all_positions, once
update_all_positions_called(th, price_updates) ==
    /\ jobs[th].op = "none"
    /\ Moves(th, World,
             [NoJob EXCEPT !.op = "update_all_positions", !.returns = "none",
                           !.at = "update_prices", !.price_updates = price_updates],
             lock)
    /\ UNCHANGED <<call, ncalls>>

\* thread th gets the lock of the block it is waiting at
lock_acquired(th) ==
    /\ jobs[th].at \in Sections
    /\ ~jobs[th].inside
    /\ Acquirable(lock, th)
    /\ Moves(th, World, [jobs[th] EXCEPT !.inside = TRUE], th)
    /\ UNCHANGED <<call, ncalls>>

update_prices_done(th) ==
    /\ jobs[th].at = "update_prices"
    /\ jobs[th].inside
    /\ \E o \in {update_prices_ends(World, jobs[th])} : Moves(th, o.w, o.j, Free)
    /\ UNCHANGED <<call, ncalls>>

check_stop_losses_done(th) ==
    /\ jobs[th].at = "check_stop_losses"
    /\ jobs[th].inside
    /\ \E order \in Orderings(check_stop_losses(positions)) :
          \E o \in {check_stop_losses_ends(World, jobs[th], order)} :
              Moves(th, o.w, o.j, Free)
    /\ UNCHANGED <<call, ncalls>>

execute_sell_called(th) ==
    /\ jobs[th].at = "execute_sell"
    /\ \E o \in {execute_sell_begins(World, jobs[th])} : Moves(th, World, o, lock)
    /\ UNCHANGED <<call, ncalls>>

reduce_position_done(th, save_fails) ==
    /\ jobs[th].at = "reduce_position"
    /\ jobs[th].inside
    /\ \E o \in {reduce_position_ends(World, jobs[th], save_fails)} :
          Moves(th, o.w, o.j, Free)
    /\ UNCHANGED <<call, ncalls>>

execute_buy_done(th) ==
    /\ jobs[th].at = "execute_buy"
    /\ Acquirable(lock, th)
    /\ \E o \in {execute_buy_ends(World, jobs[th], FALSE)} : Moves(th, o.w, o.j, o.lock)
    /\ UNCHANGED <<call, ncalls>>

\* update_all_positions; its loop goes through the triggers in some order
update_all_positions(price_updates, failing) ==
    /\ CanCall
    /\ \E order \in Orderings(check_stop_losses(update_prices_to(positions,
                                                                  price_updates))) :
          /\ failing \subseteq {order[i] : i \in DOMAIN order}
          /\ Begins(Main,
                    [op |-> "update_all_positions", price_updates |-> price_updates],
                    "real_trade_sell",
                    update_all_positions_outcome(World, price_updates, order, failing))

\* emergency_stop; its loop goes through the positions in some order
emergency_stop(th, cancel_raises, failing) ==
    /\ jobs[th].at = "idle"
    /\ IF th = Main THEN CanCall ELSE jobs[th].op = "none"
    /\ cancel_raises \subseteq open_orders
    /\ paper_trading => cancel_raises = {}
    /\ failing \subseteq DOMAIN positions
    /\ ~paper_trading => failing = {}
    /\ \E order \in Orderings(DOMAIN positions) :
          Begins(th, [op |-> "emergency_stop"], "real_trade_sell",
                 emergency_stop_outcome(World, cancel_raises, order, failing))

\* _real_trade_buy, called for a buy that passed the checks
real_trade_buy(t, q, p) ==
    Begins(Main, [op |-> "real_trade_buy", token |-> t, quantity |-> R(q), price |-> R(p)],
           "real_trade_buy",
           [w |-> World,
            j |-> [NoJob EXCEPT !.op = "real_trade_buy", !.returns = "result",
                                !.at = "place_order", !.side = "buy", !.token = t,
                                !.quantity = R(q), !.price = R(p)]])

monitor_order(th, order_id, timeout) ==
    Begins(th, [op |-> "monitor_order", order_id |-> order_id, timeout |-> timeout],
           "monitor_order",
           monitor_begins(World, [NoJob EXCEPT !.op = "monitor_order", !.returns = "result"],
                          order_id, timeout))

\* the broker answers the place_order of thread th
place_order(th, response) ==
    /\ jobs[th].at = "place_order"
    /\ Steps(th, place_order_returns(World, jobs[th], th, response))

\* the broker answers a check_order_status of thread th, within the timeout
check_order_status(th, response, save_fails) ==
    /\ jobs[th].at = "check_order_status"
    /\ jobs[th].elapsed < jobs[th].timeout
    /\ save_fails => response \in Statuses
    /\ Steps(th, monitor_polls(World, jobs[th], response, save_fails))

\* the timeout of the monitor_order of thread th has passed
monitor_timeout(th, cancel_raises) ==
    /\ jobs[th].at = "check_order_status"
    /\ jobs[th].elapsed >= jobs[th].timeout
    /\ cancel_raises => ~paper_trading
    /\ Steps(th, timed_out(World, jobs[th], cancel_raises))

Next ==
    \/ \E t \in Tokens, q \in Quantities, p \in Prices : add_position(t, q, p)
    \/ \E t \in Tokens, q \in Quantities, p \in Prices : reduce_position(t, q, p)
    \/ \E m \in PriceMaps : update_prices(m)
    \/ call_check_stop_losses
    \/ \E t \in Tokens, side \in Sides, q \in Quantities, p \in Prices :
            validate_trade(t, side, q, p)

Spec == Init /\ [][Next]_vars

\* the Trader on top of its RiskManager, whose ledger the caller may also fill and
\* reprice directly; confidence_score defaults to 1.0
TraderNext ==
    \/ \E t \in Tokens, q \in Quantities, p \in Prices : add_position(t, q, p)
    \/ \E m \in PriceMaps : update_prices(m)
    \/ \E t \in Tokens, info \in TokenInfos, c \in Confidences, save_fails \in BOOLEAN :
            execute_trade(t, "bullish", info, c, save_fails)
    \/ \E t \in Tokens, rating \in Ratings \ {"bullish"}, info \in TokenInfos,
          save_fails \in BOOLEAN :
            execute_trade(t, rating, info, R(1), save_fails)
    \/ \E m \in PriceMaps, failing \in SUBSET Tokens : update_all_positions(m, failing)

TraderSpec == Init /\ [][TraderNext]_vars

\* monitor_order on its own, in either mode
MonitorInit == \E mode \in BOOLEAN : Constructed(mode)

MonitorNext ==
    \/ \E timeout \in Timeouts : monitor_order(Main, placed_order_id(Main), timeout)
    \/ \E response \in PollResponses, save_fails \in BOOLEAN :
            check_order_status(Main, response, save_fails)
    \/ \E cancel_raises \in BOOLEAN : monitor_timeout(Main, cancel_raises)

MonitorSpec == MonitorInit /\ [][MonitorNext]_vars

\* live trading: the decision loop trades through the broker while the bot may be
\* shut down from another thread
LiveInit == Constructed(FALSE)

\* the token_info the live decision loop passes: a price above zero, or none
LiveInfos == [price_usd : Prices \cup {0}, numeric : {TRUE}]

LiveNext ==
    \/ \E t \in Tokens, q \in Lots, p \in Prices : add_position(t, q, p)
    \/ \E t \in Tokens, q \in Lots, p \in Prices : real_trade_buy(t, q, p)
    \/ \E t \in Tokens, rating \in Ratings \ {"bullish"}, info \in LiveInfos :
            execute_trade(t, rating, info, R(1), FALSE)
    \/ \E response \in PlaceResponses : place_order(Main, response)
    \/ \E response \in PollResponses, save_fails \in BOOLEAN :
            check_order_status(Main, response, save_fails)
    \/ \E cancel_raises \in BOOLEAN : monitor_timeout(Main, cancel_raises)

LiveSpec == LiveInit /\ [][LiveNext]_vars

\* the bot is shut down from another thread while the decision loop holds positions
\* and both other threads have begun to wait for an order, in either mode
ShutdownNext ==
    \/ \E t \in Tokens, q \in Lots, p \in Prices : add_position(t, q, p)
    \/ \E th \in {Main, Worker} : monitor_order(th, placed_order_id(th), default_timeout)
    \/ \E cancel_raises \in SUBSET open_orders, failing \in SUBSET DOMAIN positions :
            emergency_stop(Shutdown, cancel_raises, failing)
    \/ \E response \in PlaceResponses : place_order(Shutdown, response)
    \/ \E response \in {"pending", "filled", "failed", "Exception"} :
            check_order_status(Shutdown, response, FALSE)
    \/ \E cancel_raises \in BOOLEAN : monitor_timeout(Shutdown, cancel_raises)

ShutdownSpec == MonitorInit /\ [][ShutdownNext]_vars

\* paper trading with two threads: the decision loop fills the ledger and calls
\* execute_trade while another thread calls update_all_positions
RaceNext ==
    \/ \E t \in Tokens, q \in Lots, p \in Prices : add_position(t, q, p)
    \/ \E t \in Tokens, rating \in Ratings, info \in [price_usd : Prices, numeric : {TRUE}] :
            execute_trade_called(t, rating, info, R(1))
    \/ \E m \in PriceMaps : update_all_positions_called(Worker, m)
    \/ \E th \in {Main, Worker} : lock_acquired(th)
    \/ \E th \in {Main, Worker} : update_prices_done(th)
    \/ \E th \in {Main, Worker} : check_stop_losses_done(th)
    \/ \E th \in {Main, Worker} : execute_sell_called(th)
    \/ \E th \in {Main, Worker}, save_fails \in BOOLEAN : reduce_position_done(th, save_fails)
    \/ execute_buy_done(Main)

RaceSpec == Init /\ [][RaceNext]_vars

\* the ledger is filled and repriced, and its metrics are asked for
SummaryNext ==
    \/ \E t \in Tokens, q \in Quantities, p \in Prices : add_position(t, q, p)
    \/ \E m \in PriceMaps : update_prices(m)
    \/ get_risk_metrics
    \/ get_portfolio_summary

SummarySpec == Init /\ [][SummaryNext]_vars

\* the health of a Trader that has counted total trades, successful of them
\* successful, asked for while another thread may wait for an order; the ledger
\* and the history, which health_check does not read, are as constructed
HealthInit ==
    \E mode \in BOOLEAN, total \in 0..MaxTrades :
        \E successful \in 0..total :
            /\ paper_trading = mode
            /\ open_orders = {}
            /\ jobs = [th \in Threads |-> NoJob]
            /\ positions = [t \in {} |-> NotBought]
            /\ trade_history = <<>>
            /\ lock = Free
            /\ pc = "idle"
            /\ call = [op |-> "init"]
            /\ ret = NoReturn
            /\ bought = [t \in Tokens |-> NotBought]
            /\ total_trades = total
            /\ successful_trades = successful
            /\ failed_trades = total - successful
            /\ ncalls = 0

HealthNext ==
    \/ monitor_order(Worker, placed_order_id(Worker), default_timeout)
    \/ \E gmgn_reachable \in BOOLEAN, stuck \in SUBSET open_orders :
            health_check(gmgn_reachable, stuck)

HealthSpec == HealthInit /\ [][HealthNext]_vars

(* ------------------------------- claims --------------------------------- *)

\* the step is a call of operation op
Called(op) == ncalls' = ncalls + 1 /\ call'.op = op

\* the last call was a validate_trade of a buy
ValidatedBuy == call.op = "validate_trade" /\ call.side = "buy"

\* C1: whenever validate_trade returns allowed = true for a buy, the total exposure
\* with the trade is at most max-total-exposure and the value of the token's
\* position with the trade is at most max-position-size.
C1_AllowedBuyWithinLimits ==
    (ValidatedBuy /\ ret.kind = "verdict" /\ ret.allowed) =>
        /\ RLe(RAdd(SumValues(positions, DOMAIN positions),
                    RMul(call.quantity, call.price)), R(max_total_exposure))
        /\ RLe(new_position_value(positions, call.token, call.quantity, call.price),
               R(max_position_size))

\* a buy that validate_trade allowed (the case of C1)
C1_AllowedBuy == ValidatedBuy /\ ret.kind = "verdict" /\ ret.allowed

\* C2: every validate_trade of a buy whose prospective position value is within
\* max-position-size returns a verdict with the lock released; the caller is never
\* left waiting for the lock it holds itself.
C2_ValidateTradeReturns ==
    (/\ ValidatedBuy
     /\ RLe(new_position_value(positions, call.token, call.quantity, call.price),
            R(max_position_size)))
        => (ret.kind = "verdict" /\ lock = Free /\ pc = "idle")

\* C3: validate_trade rejects every buy whose prospective position value is more
\* than 25% of the portfolio value after the trade.
C3_RejectsOverConcentration ==
    (/\ ValidatedBuy
     /\ RLt(<<1, 4>>,
            RDiv(new_position_value(positions, call.token, call.quantity, call.price),
                 RAdd(SumValues(positions, DOMAIN positions),
                      RMul(call.quantity, call.price)))))
        => (ret.kind = "verdict" /\ ~ret.allowed)

\* C4: from an empty portfolio, a bullish execute_trade for a token at price 2 with
\* confidence 1 (max-position-size 1000, persistence working) ends with a position
\* for the token: quantity at most 500, avg_entry_price 2, stop-loss
\* 1.70, take-profit 3.
C4_FirstBuyOpensPosition ==
    (/\ ncalls = 1
     /\ call.op = "execute_trade"
     /\ call.rating = "bullish"
     /\ call.token_info = [price_usd |-> 2, numeric |-> TRUE]
     /\ call.confidence_score = R(1)
     /\ ~call.save_fails)
        => /\ call.token \in DOMAIN positions
           /\ RLe(positions[call.token].quantity, R(500))
           /\ positions[call.token].avg_entry_price = R(2)
           /\ positions[call.token].stop_loss_price = <<17, 10>>
           /\ positions[call.token].take_profit_price = R(3)

\* C5: reduce_position on a token without a position, or by more than is held,
\* returns None and leaves the ledger as it was.
C5_RejectedReduceLeavesLedger ==
    [][(/\ Called("reduce_position")
        /\ \/ call'.token \notin DOMAIN positions
           \/ RLt(positions[call'.token].quantity, call'.quantity))
          => (ret' = None /\ positions' = positions)]_vars

\* a reduce_position by more than is held was rejected
C5_RejectedOverHeld ==
    /\ call.op = "reduce_position"
    /\ ret = None
    /\ call.token \in DOMAIN positions
    /\ RLt(positions[call.token].quantity, call.quantity)

\* C6: a successful reduce_position(t, q, exit_price) returns
\* q * (exit_price - avg_entry_price); the position is removed exactly when the
\* remaining quantity is <= 0, and otherwise its quantity is q less, its realized
\* PnL is the returned amount more and its avg_entry_price is unchanged.
C6_ReduceAccounting ==
    [][(Called("reduce_position") /\ ret'.kind = "float") =>
          LET t == call'.token
              q == call'.quantity
          IN  /\ t \in DOMAIN positions
              /\ ret'.value = RMul(q, RSub(call'.price, positions[t].avg_entry_price))
              /\ (t \notin DOMAIN positions') <=> RLe(RSub(positions[t].quantity, q), Zero)
              /\ t \in DOMAIN positions' =>
                    /\ positions'[t].quantity = RSub(positions[t].quantity, q)
                    /\ positions'[t].realized_pnl =
                           RAdd(positions[t].realized_pnl, ret'.value)
                    /\ positions'[t].avg_entry_price = positions[t].avg_entry_price]_vars

\* a partial sell at a profit or a loss: the position stays, with realized PnL
C6_PartialReduce ==
    /\ call.op = "reduce_position"
    /\ ret.kind = "float"
    /\ ret.value # Zero
    /\ call.token \in DOMAIN positions
    /\ positions[call.token].realized_pnl # Zero

\* C7 as claimed: every call of reduce_position, rejected or not, appends one
\* TradeRecord to the trade history.
C7_EveryReduceRecords ==
    [][Called("reduce_position") => Len(trade_history') = Len(trade_history) + 1]_vars

\* C7 as amended: a reduce_position that succeeds appends exactly one TradeRecord
\* (a sell of that quantity at that price with the returned realized PnL), whether
\* it closes the position or only reduces it; a rejected one appends nothing.
C7_SuccessfulReduceRecords ==
    [][Called("reduce_position") =>
          IF ret' = None
          THEN trade_history' = trade_history
          ELSE trade_history' =
                  Append(trade_history,
                         [token_address |-> call'.token, side |-> "sell",
                          quantity |-> call'.quantity, price |-> call'.price,
                          realized_pnl |-> ret'.value])]_vars

\* a rejected reduce_position after a successful one: still one record
C7_RejectedAfterRecorded ==
    /\ call.op = "reduce_position"
    /\ ret = None
    /\ Len(trade_history) = 1

\* C8: every position in the ledger has quantity > 0.
C8_HeldQuantityPositive ==
    \A t \in DOMAIN positions : RLt(Zero, positions[t].quantity)

\* a sell of everything held closed the position while another one stays open
C8_ClosedPosition ==
    /\ call.op = "reduce_position"
    /\ ret.kind = "float"
    /\ call.token \notin DOMAIN positions
    /\ DOMAIN positions # {}

\* C9: while a position has only been bought, its quantity is the sum of the
\* quantities added and quantity * avg_entry_price is the sum of quantity_i * price_i.
C9_VolumeWeightedAverage ==
    \A t \in DOMAIN positions :
        ~bought[t].sold =>
            /\ positions[t].quantity = bought[t].quantity
            /\ RMul(positions[t].quantity, positions[t].avg_entry_price) = bought[t].cost

\* a position bought at two different prices: its average is neither
C9_BlendedAverage ==
    \E t \in DOMAIN positions :
        /\ ~bought[t].sold
        /\ positions[t].avg_entry_price[2] # 1

\* C10: add_position on a token without a position sets stop-loss = price * 0.85
\* and take-profit = price * 1.5; on a token with a position it leaves both
\* thresholds as they were.
C10_ThresholdsSetOnce ==
    [][Called("add_position") =>
          LET t == call'.token
          IN  IF t \in DOMAIN positions
              THEN /\ positions'[t].stop_loss_price = positions[t].stop_loss_price
                   /\ positions'[t].take_profit_price = positions[t].take_profit_price
              ELSE /\ positions'[t].stop_loss_price = RMul(call'.price, <<17, 20>>)
                   /\ positions'[t].take_profit_price = RMul(call'.price, <<3, 2>>)]_vars

\* a later buy moved the average entry price away from the one the thresholds
\* were computed from
C10_AveragedIn ==
    /\ call.op = "add_position"
    /\ call.token \in DOMAIN positions
    /\ positions[call.token].stop_loss_price #
           RMul(positions[call.token].avg_entry_price, <<17, 20>>)

\* C11: one call of check_stop_losses returns, for every position in the ledger, a
\* stop_loss trigger iff current_price <= stop_loss_price and a take_profit trigger
\* iff current_price >= take_profit_price, never both for one position, and leaves
\* every position as it was.
C11_TriggersExact ==
    [][Called("check_stop_losses") =>
          /\ positions' = positions
          /\ \A t \in DOMAIN positions :
                LET emitted == {tr.action : tr \in {x \in ret'.value : x.token_address = t}}
                IN  /\ "stop_loss" \in emitted <=>
                           RLe(positions[t].current_price, positions[t].stop_loss_price)
                    /\ "take_profit" \in emitted <=>
                           RLe(positions[t].take_profit_price, positions[t].current_price)
                    /\ Cardinality(emitted) <= 1]_vars

\* check_stop_losses returned a stop_loss trigger for a position whose price is
\* exactly its stop-loss price, and the position is still in the ledger
C11_StopLossAtThreshold ==
    /\ call.op = "check_stop_losses"
    /\ \E tr \in ret.value :
          /\ tr.action = "stop_loss"
          /\ tr.token_address \in DOMAIN positions
          /\ positions[tr.token_address].current_price =
                 positions[tr.token_address].stop_loss_price

\* the last call, a monitor_order, has returned
MonitorReturned == call.op = "monitor_order" /\ pc = "idle"

\* C12: monitor_order returns true if and only if the broker returned the status
\* filled before the timeout (the status that ended the polling, as every other
\* status either ends it or lets it go on).
C12_TrueIffFilled ==
    MonitorReturned =>
        (ret = Bool(TRUE) <=> jobs[Main].current_status = "filled")

\* C13 as stated: a monitor_order that ends by timeout has called cancel_order
\* exactly once and returns false; one that ends on a terminal status has not
\* called it.
C13_OneCancelOnTimeout ==
    MonitorReturned =>
        /\ jobs[Main].ended = "timeout" => jobs[Main].cancels = 1 /\ ret = Bool(FALSE)
        /\ jobs[Main].ended = "status" => jobs[Main].cancels = 0

\* C13 (amended): a monitor_order that ends by timeout returns false, whether or
\* not cancel_order raised, having called cancel_order exactly once in live mode
\* and not at all in paper mode; one that ends otherwise has not called it.
C13_OneCancelOnLiveTimeout ==
    MonitorReturned =>
        /\ jobs[Main].ended = "timeout" =>
              /\ jobs[Main].cancels = IF paper_trading THEN 0 ELSE 1
              /\ ret = Bool(FALSE)
        /\ jobs[Main].ended # "timeout" => jobs[Main].cancels = 0

\* a live monitor_order timed out and its cancel_order raised
C13_CancelRaised ==
    /\ MonitorReturned
    /\ ~paper_trading
    /\ jobs[Main].ended = "timeout"
    /\ jobs[Main].current_status = "pending"
    /\ jobs[Main].cancels = 1
    /\ jobs[Main].cancel_failed = {placed_order_id(Main)}
    /\ ret = Bool(FALSE)

\* the step is a whole execute_trade call with this rating, from call to return
Traded(rating) == Called("execute_trade") /\ call'.rating = rating /\ pc' = "idle"

\* the token_info of the call being made has a price execute_trade accepts
PriceAccepted == call'.token_info.numeric /\ call'.token_info.price_usd > 0

\* in the call being made a paper order was filled and save_order_status raised
PersistenceRaised ==
    call'.save_fails /\ (trade_history' # trade_history \/ bought' # bought)

C15_NeutralAlwaysTrue ==
    [][Traded("neutral") => ret' = Bool(TRUE)]_vars

\* C15 (amended): with a neutral rating and a positive numeric price execute_trade
\* pushes the price of the token and returns true, whatever the forced sell did;
\* with any other price it returns false and leaves the ledger alone. It never
\* buys: no position is created or enlarged.
C15_NeutralPass ==
    [][Traded("neutral") =>
          /\ IF PriceAccepted
             THEN /\ ret' = Bool(TRUE)
                  /\ call'.token \in DOMAIN positions' =>
                        positions'[call'.token].current_price =
                            R(call'.token_info.price_usd)
             ELSE ret' = Bool(FALSE) /\ positions' = positions
          /\ \A k \in DOMAIN positions' :
                /\ k \in DOMAIN positions
                /\ RLe(positions'[k].quantity, positions[k].quantity)
          /\ \A k \in Tokens : bought'[k] = bought[k] \/ bought'[k] = NotBought]_vars

\* a neutral call returned true although the order of its forced sell was not saved
C15_ForcedSellNotSaved ==
    /\ call.op = "execute_trade"
    /\ pc = "idle"
    /\ call.rating = "neutral"
    /\ call.save_fails
    /\ call.token \notin DOMAIN positions
    /\ trade_history # <<>>
    /\ trade_history[Len(trade_history)].token_address = call.token
    /\ successful_trades = 0
    /\ ret = Bool(TRUE)

\* C16: execute_trade with a neutral rating for token T leaves quantity,
\* avg_entry_price and current_price of every other position alone, triggered or
\* not; T's own position keeps quantity and avg_entry_price unless the pushed price
\* is at or below its stop loss or at or above its take profit, in which case it
\* is sold.
C16_NeutralFrame ==
    [][Traded("neutral") =>
          \A k \in DOMAIN positions :
              IF k # call'.token
              THEN /\ k \in DOMAIN positions'
                   /\ positions'[k].quantity = positions[k].quantity
                   /\ positions'[k].avg_entry_price = positions[k].avg_entry_price
                   /\ positions'[k].current_price = positions[k].current_price
              ELSE IF /\ PriceAccepted
                      /\ \/ RLe(R(call'.token_info.price_usd), positions[k].stop_loss_price)
                         \/ RLe(positions[k].take_profit_price,
                                R(call'.token_info.price_usd))
                   THEN k \notin DOMAIN positions'
                   ELSE /\ k \in DOMAIN positions'
                        /\ positions'[k].quantity = positions[k].quantity
                        /\ positions'[k].avg_entry_price = positions[k].avg_entry_price]_vars

\* a neutral call for one token returned while the position of another token,
\* priced below its stop loss, is still held
C16_OtherTriggeredKept ==
    /\ call.op = "execute_trade"
    /\ pc = "idle"
    /\ call.rating = "neutral"
    /\ call.token_info.numeric /\ call.token_info.price_usd > 0
    /\ \E k \in DOMAIN positions :
          /\ k # call.token
          /\ RLe(positions[k].current_price, positions[k].stop_loss_price)

C20_TriggeredAreSold ==
    [][(Called("update_all_positions") /\ paper_trading) =>
          /\ pc' = "idle"
          /\ DOMAIN positions' \subseteq DOMAIN positions
          /\ \A k \in DOMAIN positions :
                LET price == IF k \in DOMAIN call'.price_updates
                             THEN call'.price_updates[k]
                             ELSE positions[k].current_price
                IN  IF \/ RLe(price, positions[k].stop_loss_price)
                       \/ RLe(positions[k].take_profit_price, price)
                    THEN k \notin DOMAIN positions'
                    ELSE /\ k \in DOMAIN positions'
                         /\ positions'[k].quantity = positions[k].quantity
                         /\ positions'[k].avg_entry_price = positions[k].avg_entry_price
                         /\ positions'[k].current_price = price]_vars

\* update_all_positions repriced two positions, sold the one that triggered and
\* kept the other
C20_OneSoldOneKept ==
    /\ call.op = "update_all_positions"
    /\ pc = "idle"
    /\ ret = None
    /\ \E t, u \in DOMAIN call.price_updates :
          /\ t \notin DOMAIN positions
          /\ trade_history # <<>>
          /\ trade_history[Len(trade_history)].token_address = t
          /\ u \in DOMAIN positions
          /\ positions[u].current_price = call.price_updates[u]

\* C17: in live mode a buy changes the ledger only in the step in which
\* monitor_order returns on the status filled, and then by add_position of the
\* order; when place_order returns no order id or raises, when the order ends
\* cancelled, failed or rejected, when monitoring times out or fails, the buy
\* returns without add_position and the ledger is as it was.
C17_LedgerOnlyAfterFill ==
    [][/\ Called("real_trade_buy") => UNCHANGED <<positions, bought>>
       /\ jobs[Main].side = "buy" =>
             IF /\ jobs'[Main].at = "idle"
                /\ jobs'[Main].ended = "status"
                /\ jobs'[Main].current_status = "filled"
             THEN /\ positions' = add_position_to(positions, jobs[Main].token,
                                                  jobs[Main].quantity, jobs[Main].price)
                  /\ ret' = Bool(TRUE)
             ELSE /\ UNCHANGED <<positions, bought, trade_history>>
                  /\ jobs'[Main].at = "idle" => ret' # Bool(TRUE)]_vars

\* a live buy returned true: its order was filled and the position is in the ledger
C17_FilledBuy ==
    /\ ~paper_trading
    /\ call.op = "real_trade_buy"
    /\ pc = "idle"
    /\ ret = Bool(TRUE)
    /\ jobs[Main].current_status = "filled"
    /\ call.token \in DOMAIN positions
    /\ positions[call.token].quantity = call.quantity
    /\ successful_trades = 1

\* C19: emergency_stop calls cancel_order for every tracked order (in live mode),
\* whichever of these calls raise, lists every position of the ledger, and when it
\* returns it returns true and has called _execute_sell for every position listed.
C19_StopsDespiteCancelFailure ==
    [][LET j == jobs'[Shutdown]
       IN  /\ (jobs[Shutdown].op = "none" /\ j.op = "emergency_stop") =>
                 /\ j.listed = DOMAIN positions
                 /\ ~paper_trading => j.cancel_attempts = open_orders
                 /\ j.cancel_failed \subseteq j.cancel_attempts
                 /\ open_orders' = j.cancel_failed
           /\ j.op = "emergency_stop" =>
                 /\ j.attempted \subseteq j.listed
                 /\ j.at = "idle" => j.ret = Bool(TRUE) /\ j.attempted = j.listed]_vars

\* emergency_stop returned true with two positions listed and sold for, two orders
\* tracked, the cancel_order of one of them having raised
C19_OneCancelRaised ==
    /\ jobs[Shutdown].op = "emergency_stop"
    /\ jobs[Shutdown].at = "idle"
    /\ jobs[Shutdown].ret = Bool(TRUE)
    /\ jobs[Shutdown].cancel_attempts = {placed_order_id(Main), placed_order_id(Worker)}
    /\ Cardinality(jobs[Shutdown].cancel_failed) = 1
    /\ jobs[Shutdown].listed = Tokens
    /\ jobs[Shutdown].attempted = Tokens

\* C21: health_check reports overall_healthy = false exactly when the broker is
\* unreachable in live mode, or a tracked order is older than 10 minutes, or the
\* success rate is below 70% (a Trader without trades has the rate 0, as the code
\* has it); at 70% or more, with the broker reachable and no order stuck, it
\* reports healthy.
C21_UnhealthyExactlyWhen ==
    call.op = "health_check" =>
        (~ret.overall_healthy <=>
            \/ ~paper_trading /\ ~call.gmgn_reachable
            \/ call.stuck # {}
            \/ total_trades = 0
            \/ successful_trades * 10 < 7 * total_trades)

\* C22: get_risk_metrics returns, with the lock released, a RiskMetrics snapshot
\* whose position count and total exposure are the number and the summed current
\* value of the positions in the ledger.
C22_MetricsReturned ==
    call.op = "get_risk_metrics" =>
        /\ pc = "idle"
        /\ lock = Free
        /\ ret.kind = "metrics"
        /\ ret.number_of_positions = Cardinality(DOMAIN positions)
        /\ ret.total_exposure = get_portfolio_value(positions)

\* C23: while one thread runs update_all_positions and another execute_trade,
\* every step of theirs that changes the ledger or the trade history is made by a
\* thread that is inside a block of the RiskManager and holds its lock, and at no
\* time are two threads inside such a block.
C23_MutationsUnderLock ==
    [][/\ \A th \in Threads :
             (/\ jobs'[th] # jobs[th]
              /\ positions' # positions \/ trade_history' # trade_history)
                 => jobs[th].inside /\ lock = th
       /\ \A th \in Threads : jobs'[th].inside => lock' = th
       /\ \A a, b \in Threads : (jobs'[a].inside /\ jobs'[b].inside) => a = b]_vars

\* execute_trade is inside reduce_position while update_all_positions waits for
\* the lock to write the prices
C23_OneInsideOneWaiting ==
    /\ jobs[Main].op = "execute_trade"
    /\ jobs[Main].at = "reduce_position"
    /\ jobs[Main].inside
    /\ lock = Main
    /\ jobs[Worker].op = "update_all_positions"
    /\ jobs[Worker].at = "update_prices"
    /\ ~jobs[Worker].inside

\* C29: a position is opened, and execute_trade with a bearish rating and
\* update_all_positions both set out to sell it (each found it in the ledger).
\* When both have returned, one trade is recorded for it and successful_trades
\* has been incremented at most once (once unless saving the order failed).
C29_OneSellCounts ==
    (/\ ncalls = 2
     /\ call.op = "execute_trade"
     /\ call.rating = "bearish"
     /\ jobs[Main].at = "idle"
     /\ jobs[Worker].op = "update_all_positions"
     /\ jobs[Worker].at = "idle"
     /\ call.token \in jobs[Main].attempted
     /\ call.token \in jobs[Worker].attempted)
        => /\ Len(trade_history) = 1
           /\ successful_trades <= 1

\* C24: an error raised by check_order_status does not end monitor_order: a
\* monitor_order that has returned ended on a status the broker returned or on
\* the timeout, never on the error of a poll.
C24_PollingErrorsDoNotAbort ==
    MonitorReturned => jobs[Main].ended # "poll_error"

\* the step is an answer of the broker to the place_order of thread th
PlaceOrderAnswered(th) == jobs[th].at = "place_order" /\ jobs'[th] # jobs[th]

\* the step leaves thread th placing the same order again
PlacedAgain(th) ==
    /\ jobs'[th].at = "place_order"
    /\ jobs'[th].queue = jobs[th].queue
    /\ jobs'[th].token = jobs[th].token

\* C25 as stated: place_order is called at most 4 times per trade and again only
\* after a transient error, and an execute_trade whose place_order failed returns
\* false, never raising.
C25_GivesUpWithFalse ==
    [][/\ \A th \in Threads :
             PlaceOrderAnswered(th) =>
                 /\ jobs[th].attempt <= max_retries
                 /\ PlacedAgain(th) =>
                       /\ jobs'[th].place_response = "APIException"
                       /\ jobs'[th].attempt = jobs[th].attempt + 1
       /\ (/\ PlaceOrderAnswered(Main) /\ call.op = "execute_trade"
           /\ jobs'[Main].at = "idle")
              => ret' = Bool(FALSE)]_vars

\* C25 (amended): place_order is called at most 4 times per trade and again only
\* after a transient error; after any other error, or the fourth transient one, it
\* is not called again for the trade and execute_trade does not raise: it returns
\* false when the rating was bearish and true when the sell was one of the
\* position management of a neutral rating.
C25_GivesUpWithoutRaising ==
    [][/\ \A th \in Threads :
             PlaceOrderAnswered(th) =>
                 /\ jobs[th].attempt <= max_retries
                 /\ PlacedAgain(th) =>
                       /\ jobs'[th].place_response = "APIException"
                       /\ jobs'[th].attempt = jobs[th].attempt + 1
       /\ (/\ PlaceOrderAnswered(Main) /\ call.op = "execute_trade"
           /\ jobs'[Main].at = "idle")
              => ret' = Bool(call.rating = "neutral")]_vars

\* the bearish sell of execute_trade has met three transient errors and places its
\* order for the fourth time
C25_FourthAttempt ==
    /\ call.op = "execute_trade"
    /\ call.rating = "bearish"
    /\ jobs[Main].at = "place_order"
    /\ jobs[Main].attempt = max_retries
    /\ jobs[Main].place_response = "APIException"

\* C26: a bearish execute_trade whose sell failed at the broker (place_order gave
\* up, or monitor_order returned false) has incremented failed_trades by exactly
\* one when it returns.
C26_BrokerFailuresCounted ==
    [][(/\ call.op = "execute_trade" /\ call.rating = "bearish"
        /\ jobs[Main].at \in {"place_order", "check_order_status"}
        /\ jobs'[Main].at = "idle"
        /\ ret' = Bool(FALSE))
           => failed_trades' = failed_trades + 1]_vars

\* C27: the counters of the Trader always satisfy total_trades =
\* successful_trades + failed_trades, so the success rate lies between 0 and 1.
C27_CountersAddUp ==
    /\ total_trades = successful_trades + failed_trades
    /\ successful_trades <= total_trades

\* C28: an execute_trade that returns false leaves the ledger as it was before the
\* call and does not increment successful_trades.
C28_FalseLeavesLedger ==
    [][(Called("execute_trade") /\ pc' = "idle" /\ ret' = Bool(FALSE))
           => /\ positions' = positions
              /\ successful_trades' = successful_trades]_vars

\* C30: place_order is called only for a trade that has no order id yet, and a
\* thread whose order is being monitored does not place an order again, except
\* for the next sell of its loop: no outcome of monitor_order has the trade's
\* order submitted a second time.
C30_OneOrderPerTrade ==
    [][\A th \in Threads :
          /\ PlaceOrderAnswered(th) => jobs[th].order_id = "none"
          /\ (jobs[th].at = "check_order_status" /\ jobs'[th].at = "place_order")
                => /\ Len(jobs'[th].queue) < Len(jobs[th].queue)
                   /\ jobs'[th].order_id = "none"
                   /\ jobs'[th].attempt = 0]_vars

\* the order of a bearish execute_trade timed out and was cancelled, and
\* execute_trade has returned false, the failure counted once
C30_OrderTimedOut ==
    /\ call.op = "execute_trade"
    /\ call.rating = "bearish"
    /\ pc = "idle"
    /\ jobs[Main].ended = "timeout"
    /\ jobs[Main].cancels = 1
    /\ ret = Bool(FALSE)
    /\ failed_trades = 1
    /\ total_trades = 1
    /\ open_orders = {}

====
